---------------------------- MODULE Spec2Model ----------------------------
(***************************************************************************)
(* A model of toil-scripts' file acquisition layer (defuse_lib.py) and of  *)
(* the ADAM/GATK driver (align_and_call.py).                               *)
(*                                                                         *)
(* The module holds one specification per subsystem; all of them range     *)
(* over the same variables, and a subsystem that a specification does not  *)
(* exercise stays in its idle state:                                       *)
(*   SpecS3     get_file_from_s3        (defuse_lib.py 94-173)             *)
(*   SpecCghub  get_file_from_cghub     (defuse_lib.py 176-251)            *)
(*   SpecDriver __main__ + sample_loop  (align_and_call.py 198-214,311-402)*)
(*   SpecDag    static_dag              (align_and_call.py 218-308)        *)
(*   SpecFiles  get_files_from_filestore (defuse_lib.py 54-92)             *)
(***************************************************************************)
EXTENDS Integers, Sequences, FiniteSets, TLC

VARIABLES
    \* ---- get_file_from_s3
    s3_pc,              \* "off" | "entry" | "invoke" | "handle" | "returned" | "raised"
    s3_scheme,          \* urlparse(s3_url).scheme
    write_to_jobstore,  \* the keyword argument
    attempt,            \* the local variable attempt
    exception,          \* the local variable exception (Unbound until assigned)
    stderr_file,        \* content of work_dir/stderr, NoFile when it does not exist
    s3_outcome,         \* how the last s3am invocation ended
    s3_calls,           \* number of s3am invocations made by this call
    s3_history,         \* per invocation: how it ended, what its own log diagnoses
    s3_error,           \* the exception the call ended with (NoError if none)
    s3_published,       \* number of writeGlobalFile calls made by this call
    \* ---- get_file_from_cghub
    cg_pc,              \* "off" | "loop" | "validate" | "returned" | "raised"
    attemptNumber,      \* the local variable attemptNumber
    cg_invocations,     \* every genetorrent invocation: its -k parameter, its success
    cg_sleeps,          \* the seconds of every time.sleep call, in order
    cg_logged,          \* errors passed to logToMaster, in order
    cg_listing,         \* os.listdir(temp_fastqdir) after the download
    cg_files,           \* os.listdir of the analysis directory
    cg_result,          \* what the call returned or raised
    \* ---- __main__ and sample_loop
    main_pc,            \* "off" | "parse" | "build" | "loop" | "returned" | "rejected"
    main_error,         \* the ValueError __main__ raised ("" if none)
    manifest,           \* the lines of args.uuid_manifest
    pipeline_to_run,    \* args.pipeline_to_run
    num_nodes,          \* args.num_nodes
    uuid_list,          \* the list built from the manifest
    inputs,             \* the five configuration dicts built by __main__
    loop_i,             \* number of completed iterations of sample_loop
    children,           \* the child jobs added by sample_loop, in order
    \* ---- static_dag
    dag_pc,             \* "off" | "build" | "wired"
    dag_mode,           \* the pipeline_to_run argument of static_dag
    dag_edges,          \* the addChild edges wired so far
    dag_encapsulated,   \* the jobs wrapped with .encapsulate()
    dag_status,         \* per stage group: "pending" | "running" | "succeeded" | "failed"
    dag_done,           \* per stage group: number of its jobs that have succeeded
    \* ---- get_files_from_filestore
    fs_pc,              \* "off" | "loop" | "returned" | "raised"
    docker,             \* the keyword argument
    fs_files,           \* the dict files: name -> file store handle or path
    fs_keys,            \* the keys of files.keys() the loop has not visited yet
    work_dir,           \* the files in work_dir: name -> content
    fs_input,           \* the dict as it was passed in
    fs_log              \* per visited key: what its iteration read and did

s3vars   == <<s3_pc, s3_scheme, write_to_jobstore, attempt, exception, stderr_file,
              s3_outcome, s3_calls, s3_history, s3_error, s3_published>>
cgvars   == <<cg_pc, attemptNumber, cg_invocations, cg_sleeps, cg_logged,
              cg_listing, cg_files, cg_result>>
mainvars == <<main_pc, main_error, manifest, pipeline_to_run, num_nodes, uuid_list, inputs,
              loop_i, children>>
dagvars  == <<dag_pc, dag_mode, dag_edges, dag_encapsulated, dag_status, dag_done>>
fsvars   == <<fs_pc, docker, fs_files, fs_keys, work_dir, fs_input, fs_log>>
vars     == <<s3vars, cgvars, mainvars, dagvars, fsvars>>

-----------------------------------------------------------------------------
(* Helpers *)

Last(s) == s[Len(s)]

\* The sequences over S of length at most n.
SeqUpTo(S, n) == UNION {[1..k -> S] : k \in 0..n}

\* The sequences over S of length at most n without a repeated element.
DistinctSeqUpTo(S, n) ==
    {s \in SeqUpTo(S, n) : \A i, j \in DOMAIN s : i # j => s[i] # s[j]}

-----------------------------------------------------------------------------
(* get_file_from_s3 *)

\* A line of the diagnostic log is the sequence of its segments between ': '.
\* A segment is named by the prefix it starts with ("x": none of those tested).
Heads == {"boto", "AttributeError", "x"}
Tails == {"403", "400", "'NoneType'", "x"}

\* A blank line (empty after strip) is <<>>.
Lines == {<<>>} \cup {<<h>> : h \in Heads \cup {"403"}}
                \cup {<<h, t>> : h \in Heads, t \in Tails}

\* Number of lines a diagnostic log holds at most.
MaxLines == 2

StderrContents == SeqUpTo(Lines, MaxLines)

\* work_dir/stderr: whether it exists, and the lines it holds.
NoFile == [exists |-> FALSE, lines |-> <<>>]
File(content) == [exists |-> TRUE, lines |-> content]

\* exception before its first assignment. The loop assigns non-blank lines
\* only, so the blank line stands for the unassigned name.
Unbound == <<>>

NoError == [type |-> "none", msg |-> ""]

\* Number of re-invocations the loop allows after an unclassified failure.
MaxAttempt == 3

\* for line in stderr_file: line = line.strip(); if line: exception = line
ScanLines(lines, exc) ==
    LET scan[i \in 0..Len(lines)] ==
            IF i = 0 THEN exc
            ELSE IF lines[i] # <<>> THEN lines[i] ELSE scan[i - 1]
    IN  scan[Len(lines)]

RuntimeError(msg) == [type |-> "RuntimeError", msg |-> msg]

\* No raise: the unclassified branch, which decides on attempt.
Retry == [type |-> "retry", msg |-> ""]

\* Classify with the 403 test missing its raise: Forbidden is retried.
MutClassify(exc) ==
    IF exc = Unbound THEN [type |-> "UnboundLocalError", msg |-> "exception"]
    ELSE IF exc[1] = "boto" THEN
        IF Last(exc) = "400" THEN RuntimeError("400 Bad Request")
        ELSE IF Last(exc) = "403" THEN Retry
        ELSE RuntimeError("s3am failed with")
    ELSE IF exc[1] = "AttributeError" THEN
        IF Last(exc) = "'NoneType'" THEN RuntimeError("Does it exist on s3?")
        ELSE RuntimeError("s3am failed with")
    ELSE Retry
\* The branches of the except clause: the error to raise, or Retry.
Classify(exc) ==
    IF exc = Unbound THEN [type |-> "UnboundLocalError", msg |-> "exception"]
    ELSE IF exc[1] = "boto" THEN
        IF Last(exc) = "403" THEN RuntimeError("403 Forbidden")
        ELSE IF Last(exc) = "400" THEN RuntimeError("400 Bad Request")
        ELSE RuntimeError("s3am failed with")
    ELSE IF exc[1] = "AttributeError" THEN
        IF Last(exc) = "'NoneType'" THEN RuntimeError("Does it exist on s3?")
        ELSE RuntimeError("s3am failed with")
    ELSE Retry

\* What a log diagnoses, read off its last non-blank line: "none" when it
\* has no such line; "403", "400" and "other" after boto; "missing" and
\* "other" after AttributeError; "unclassified" after neither.
Diagnosis(content) ==
    LET line == ScanLines(content, <<>>)
    IN  IF line = <<>> THEN "none"
        ELSE IF line[1] = "boto"
        THEN (IF Last(line) \in {"403", "400"} THEN Last(line) ELSE "other")
        ELSE IF line[1] = "AttributeError"
        THEN (IF Last(line) = "'NoneType'" THEN "missing" ELSE "other")
        ELSE "unclassified"

\* What one invocation did: how it ended and what its log diagnoses.
Attempt(out, content) == [out |-> out, diag |-> Diagnosis(content)]

S3Idle ==
    /\ s3_pc = "off" /\ s3_scheme = "s3" /\ write_to_jobstore = FALSE
    /\ attempt = 0 /\ exception = Unbound /\ stderr_file = NoFile
    /\ s3_outcome = "none" /\ s3_calls = 0 /\ s3_history = <<>>
    /\ s3_error = NoError /\ s3_published = 0

S3Init ==
    /\ s3_pc = "entry"
    /\ s3_scheme \in {"https", "s3", "ftp"}
    /\ write_to_jobstore \in BOOLEAN
    /\ attempt = 0 /\ exception = Unbound /\ stderr_file = NoFile
    /\ s3_outcome = "none" /\ s3_calls = 0 /\ s3_history = <<>>
    /\ s3_error = NoError /\ s3_published = 0

\* Lines 106-126: the scheme test and the construction of the command.
S3Entry ==
    /\ s3_pc = "entry"
    /\ IF s3_scheme \in {"https", "s3"}
         THEN /\ s3_pc' = "invoke"
              /\ s3_error' = s3_error
         ELSE /\ s3_pc' = "raised"
              /\ s3_error' = RuntimeError("Unexpected url scheme")
    /\ attempt' = 0
    /\ UNCHANGED <<s3_scheme, write_to_jobstore, exception, stderr_file,
                   s3_outcome, s3_calls, s3_history, s3_published>>
    /\ UNCHANGED <<cgvars, mainvars, dagvars, fsvars>>

\* Lines 128-130: open work_dir/stderr for writing and run s3am.
S3Invoke ==
    /\ s3_pc = "invoke"
    /\ \E out \in {"ok", "CalledProcessError", "OSError"} :
         /\ s3_outcome' = out
         /\ IF out = "CalledProcessError"
              THEN \E content \in StderrContents : stderr_file' = File(content)
              ELSE stderr_file' = File(<<>>)
    /\ s3_calls' = s3_calls + 1
    /\ s3_pc' = "handle"
    /\ UNCHANGED <<s3_scheme, write_to_jobstore, attempt, exception,
                   s3_history, s3_error, s3_published>>
    /\ UNCHANGED <<cgvars, mainvars, dagvars, fsvars>>

\* Whether the unclassified branch goes round again (line 158).
RetryAllowed(a) == a < MaxAttempt

\* The file published whatever the keyword argument says.
MutPublish(flag, n) == n + 1
\* Lines 171-172 (if write_to_jobstore: writeGlobalFile): the number of
\* files published after the call has published n.
Publish(flag, n) == IF flag THEN n + 1 ELSE n

\* The iteration without its finally clause: the log stays in work_dir.
MutRemove(f) == f
\* Lines 168-169 (finally: os.remove(stderr_file.name)): the log after the
\* iteration, however the iteration ended.
Remove(f) == NoFile

\* Lines 131-173: the except / else / finally clauses of one iteration, and
\* the code after the loop when the iteration leaves it.
S3Handle ==
    /\ s3_pc = "handle"
    /\ stderr_file' = Remove(stderr_file)
    /\ CASE s3_outcome = "ok" ->
              /\ s3_pc' = "returned"
              /\ s3_published' = Publish(write_to_jobstore, s3_published)
              /\ s3_history' = Append(s3_history, Attempt("ok", <<>>))
              /\ UNCHANGED <<attempt, exception, s3_error>>
         [] s3_outcome = "OSError" ->
              /\ s3_pc' = "raised"
              /\ s3_error' = RuntimeError("Failed to find s3am")
              /\ s3_history' = Append(s3_history, Attempt("OSError", <<>>))
              /\ UNCHANGED <<attempt, exception, s3_published>>
         [] s3_outcome = "CalledProcessError" ->
              LET exc == ScanLines(stderr_file.lines, exception)
                  cls == Classify(exc)
              IN  /\ exception' = exc
                  /\ s3_history' = Append(s3_history,
                                         Attempt("CalledProcessError", stderr_file.lines))
                  /\ s3_published' = s3_published
                  /\ IF cls # Retry
                       THEN /\ s3_pc' = "raised"
                            /\ s3_error' = cls
                            /\ attempt' = attempt
                       ELSE IF RetryAllowed(attempt)
                       THEN /\ s3_pc' = "invoke"
                            /\ attempt' = attempt + 1
                            /\ s3_error' = s3_error
                       ELSE /\ s3_pc' = "raised"
                            /\ s3_error' = RuntimeError("Could not diagnose the error")
                            /\ attempt' = attempt
    /\ UNCHANGED <<s3_scheme, write_to_jobstore, s3_outcome, s3_calls>>
    /\ UNCHANGED <<cgvars, mainvars, dagvars, fsvars>>

S3Next == S3Entry \/ S3Invoke \/ S3Handle


-----------------------------------------------------------------------------
(* File names *)

\* A file name is the sequence of its pieces: "." is the dot, "_1" and "_2"
\* the mate tags, any other piece a run of characters without a dot:
\* a.tar.gz is <<"a", ".", "tar", ".", "gz">>, r_2.fastq is
\* <<"r", "_2", ".", "fastq">>, the hidden file .hid is <<".", "hid">>.
\* The pieces that are one character long (what the regular expression's
\* dot matches).
OneChar == {".", "a", "r"}

StartsWith(n, pre) == Len(n) >= Len(pre) /\ SubSeq(n, 1, Len(pre)) = pre
EndsWith(n, suf) ==
    Len(n) >= Len(suf) /\ SubSeq(n, Len(n) - Len(suf) + 1, Len(n)) = suf

SetMax(S) == CHOOSE x \in S : \A y \in S : y <= x

\* os.path.splitext: the extension starts at the last dot that follows a
\* piece other than a dot (leading dots are no extension).
LastDot(n) ==
    LET dots == {i \in 2..Len(n) : n[i] = "." /\ \E j \in 1..(i - 1) : n[j] # "."}
    IN  IF dots = {} THEN 0 ELSE SetMax(dots)
SplitextRoot(n) == IF LastDot(n) = 0 THEN n ELSE SubSeq(n, 1, LastDot(n) - 1)
SplitextExt(n) == IF LastDot(n) = 0 THEN <<>> ELSE SubSeq(n, LastDot(n), Len(n))

\* [x for x in seq if keep(x)], for a set of kept values.
RECURSIVE Filter(_, _)
Filter(seq, Keep) ==
    IF seq = <<>> THEN <<>>
    ELSE IF Head(seq) \in Keep THEN <<Head(seq)>> \o Filter(Tail(seq), Keep)
    ELSE Filter(Tail(seq), Keep)

Range(seq) == {seq[i] : i \in DOMAIN seq}

-----------------------------------------------------------------------------
(* get_files_from_filestore *)

\* Most entries the dict passed to the call holds.
MaxEntries == 2

\* The content of a file, outermost layer first: "gz" is a gzip stream
\* (magic 1f 8b 08) that is no BAM, "tar" a tar archive, "bam" a BAM file
\* (same magic, readable by pysam) and "plain" anything else; member is
\* the name of the first member of the outermost tar archive.
Content(layers, member) == [layers |-> layers, member |-> member]
NoContent == Content(<<>>, <<>>)

\* The first member of an archive that was itself packed in an archive.
InnerMember == <<"r", ".", "fastq">>

Contents ==
    { Content(<<"plain">>, <<>>),
      Content(<<"bam">>, <<>>),
      Content(<<"gz", "plain">>, <<>>),
      Content(<<"tar", "plain">>, <<"r", ".", "fastq">>),
      Content(<<"tar", "plain">>, <<"a">>),
      Content(<<"gz", "tar", "plain">>, <<"r", ".", "fastq">>),
      Content(<<"tar", "gz", "plain">>, <<"x", ".", "gz">>),
      Content(<<"tar", "tar", "plain">>, <<"x", ".", "tar">>) }

\* The keys the dict may hold.
InputNames ==
    { <<"a">>, <<"a", ".", "gz">>, <<"a", ".", "tar">>,
      <<"a", ".", "tar", ".", "gz">>, <<"b", ".", "gz">> }

\* tarfile.is_tarfile: tarfile.open reads through a gzip layer.
is_tarfile(c) ==
    \/ Len(c.layers) >= 1 /\ c.layers[1] = "tar"
    \/ Len(c.layers) >= 2 /\ c.layers[1] = "gz" /\ c.layers[2] = "tar"

\* Lines 31-52: the gzip magic, and pysam failing to read the file.
is_gzipfile(c) == Len(c.layers) >= 1 /\ c.layers[1] = "gz"

\* gzip.open(...).read(): the stream without its gzip layer.
Gunzip(c) == Content(Tail(c.layers), c.member)

\* Lines 14-28: the first member of the archive, as extractall writes it.
untargz(c) ==
    LET tar == IF c.layers[1] = "gz" THEN Gunzip(c) ELSE c
    IN  Content(Tail(tar.layers), InnerMember)

\* The extension test without the composition of .tar and .gz: a.tar.gz has
\* the extension .gz.
Mut_file_xext(filepath) ==
    IF SplitextExt(filepath) \in {<<".", "gz">>, <<".", "tar">>}
      THEN SplitextExt(filepath) ELSE <<>>
\* Lines 254-269.
file_xext(filepath) ==
    LET ext == SplitextExt(filepath)
    IN  IF ext = <<".", "gz">>
          THEN LET xext == SplitextExt(SplitextRoot(filepath))
               IN  IF xext = <<".", "tar">> THEN xext \o ext ELSE ext
        ELSE IF ext = <<".", "tar">> THEN ext
        ELSE <<>>

\* len(xext.split('.')) - 1: the number of dots of the extension.
ExtSize(xext) == Cardinality({i \in DOMAIN xext : xext[i] = "."})

RECURSIVE SplitextTimes(_, _)
SplitextTimes(filepath, k) ==
    IF k = 0 THEN filepath ELSE SplitextTimes(SplitextRoot(filepath), k - 1)

\* Lines 272-281.
strip_xext(filepath) == SplitextTimes(filepath, ExtSize(file_xext(filepath)))

\* A value of the dict: the handle of a file in the job store, or the path
\* of a file, in work_dir or (for docker) under /data.
Handle(c) == [where |-> "jobstore", name |-> <<>>, content |-> c]
Path(where, n) == [where |-> where, name |-> n, content |-> NoContent]

\* The docker flag ignored: the path stays the one in work_dir.
Mut_docker_path(v) == v
\* Lines 284-285.
docker_path(v) == Path("/data", v.name)

\* Lines 68-87: what one iteration does with the file it has staged at
\* work_dir/name with content c: the operation, the key and the path it
\* stores, and the file it writes in work_dir.
Normalize(name, c) ==
    IF is_tarfile(c) /\ StartsWith(file_xext(name), <<".", "tar">>)
      THEN [op |-> "untar", key |-> strip_xext(name), path |-> c.member,
            out |-> c.member, outc |-> untargz(c)]
    ELSE IF is_gzipfile(c) /\ file_xext(name) = <<".", "gz">>
      THEN [op |-> "gunzip", key |-> strip_xext(name), path |-> name,
            out |-> strip_xext(name), outc |-> Gunzip(c)]
    ELSE [op |-> "none", key |-> name, path |-> name, out |-> name, outc |-> c]

\* A function with one more (or one changed) point.
Put(f, k, v) == [x \in DOMAIN f \cup {k} |-> IF x = k THEN v ELSE f[x]]
\* dict.pop.
Pop(f, k) == [x \in DOMAIN f \ {k} |-> f[x]]
Empty == [x \in {} |-> NoContent]

FsIdle ==
    /\ fs_pc = "off" /\ docker = FALSE /\ fs_files = Empty /\ fs_keys = {}
    /\ work_dir = Empty /\ fs_input = Empty /\ fs_log = Empty

\* Lines 54-67: the call, with handles of files in the job store under
\* distinct names, and files.keys() evaluated.
FsInit ==
    /\ fs_pc = "loop"
    /\ docker \in BOOLEAN
    /\ \E names \in SUBSET InputNames :
         /\ Cardinality(names) \in 1..MaxEntries
         /\ fs_files \in [names -> {Handle(c) : c \in Contents}]
    /\ fs_keys = DOMAIN fs_files
    /\ work_dir = Empty
    /\ fs_input = fs_files
    /\ fs_log = Empty

\* Line 68: what readGlobalFile stages at work_dir/name. Given a handle it
\* copies the stored file; given a path that an earlier iteration stored
\* under this key, the job store either fails to find such a file or
\* copies the file at that path: NoContent stands for the failure.
ReadGlobalFile(v) ==
    IF v.where = "jobstore" THEN {v.content}
    ELSE {NoContent} \cup
         (IF v.where = "work_dir" /\ v.name \in DOMAIN work_dir
            THEN {work_dir[v.name]} ELSE {})

\* Lines 67-91: one iteration of the loop, for the key name.
FsIterate(name) ==
    /\ fs_pc = "loop"
    /\ name \in fs_keys
    /\ fs_keys' = fs_keys \ {name}
    /\ \E c \in ReadGlobalFile(fs_files[name]) :
         IF c = NoContent
           THEN /\ fs_pc' = "raised"
                /\ UNCHANGED <<fs_files, work_dir, fs_log>>
           ELSE LET r == Normalize(name, c)
                    v == Path("work_dir", r.path)
                    stored == IF docker THEN docker_path(v) ELSE v
                IN  /\ fs_pc' = "loop"
                    /\ work_dir' = Put(Put(work_dir, name, c), r.out, r.outc)
                    /\ fs_files' = Put(Pop(fs_files, name), r.key, stored)
                    /\ fs_log' = Put(fs_log, name,
                                     [content |-> c, op |-> r.op, key |-> r.key,
                                      value |-> stored])
    /\ UNCHANGED <<docker, fs_input>>
    /\ UNCHANGED <<s3vars, cgvars, mainvars, dagvars>>

\* Line 92: the loop is over, the dict is returned.
FsReturn ==
    /\ fs_pc = "loop"
    /\ fs_keys = {}
    /\ fs_pc' = "returned"
    /\ UNCHANGED <<docker, fs_files, fs_keys, work_dir, fs_input, fs_log>>
    /\ UNCHANGED <<s3vars, cgvars, mainvars, dagvars>>

FsNext == (\E name \in InputNames : FsIterate(name)) \/ FsReturn

-----------------------------------------------------------------------------
(* get_file_from_cghub *)

\* Number of genetorrent attempts after which the error is re-raised.
MaxTries == 3
\* Minutes the -k parameter grows by per attempt.
TimeoutStep == 10
\* Seconds slept after a failed attempt.
CoolDown == 600

\* What the download may leave in temp_fastqdir: a hidden file, the .gto
\* file, the analysis directory.
TopNames == { <<".", "hid">>, <<"id", ".", "gto">>, <<"id">> }

\* What the analysis directory may hold.
BundleNames == { <<"a", ".", "bam">>, <<"a", ".", "bam", ".", "bai">>,
                 <<"a", ".", "bai">>, <<"a", ".", "tar", ".", "gz">>,
                 <<"a", ".", "gz">>, <<"a", ".", "txt">>, <<".", "hid">> }

\* The name of the first member of a tarball.
MemberNames == { <<"r", "_1", ".", "fastq">>, <<"r", "_2", ".", "fastq">>,
                 <<"r", "_2", ".", "fastq", ".", "gz">>, <<"r", ".", "fastq">>,
                 <<"r", "_2", "a", "fastq">>, <<"reads">>, <<"r", "_2", ".", "txt">> }

\* Entries of temp_fastqdir, and of the analysis directory, at most.
MaxTop == 2
MaxFiles == 3

NoCgError == [type |-> "none", msg |-> "", n |-> 0]
CgError(type, msg, n) == [type |-> type, msg |-> msg, n |-> n]
\* The error docker_call raises on the n-th invocation of genetorrent.
ToolError(n) == CgError("RuntimeError", "genetorrent failed", n)
\* The error of lines 230, 238, 247 and 250.
ShapeError == CgError("RuntimeError", "This is probably not a TCGA archive", 0)

NoResult == [kind |-> "none", err |-> NoCgError, dir |-> <<>>, name |-> <<>>]
Raised(e) == [kind |-> "raised", err |-> e, dir |-> <<>>, name |-> <<>>]
Returned(d, n) == [kind |-> "returned", err |-> NoCgError, dir |-> d, name |-> n]

CgIdle ==
    /\ cg_pc = "off" /\ attemptNumber = 0 /\ cg_invocations = <<>>
    /\ cg_sleeps = <<>> /\ cg_logged = <<>> /\ cg_listing = <<>> /\ cg_files = <<>>
    /\ cg_result = NoResult

\* Lines 188-206: the state on entering the retry loop.
CgInit ==
    /\ cg_pc = "loop" /\ attemptNumber = 0 /\ cg_invocations = <<>>
    /\ cg_sleeps = <<>> /\ cg_logged = <<>> /\ cg_listing = <<>> /\ cg_files = <<>>
    /\ cg_result = NoResult

\* The -k parameter without the attempt number: every invocation gets the
\* first one's timeout.
MutTimeout(n) == TimeoutStep
\* Line 209: the -k parameter.
Timeout(n) == (n + 1) * TimeoutStep

Invocation(k, ok) == [k |-> k, ok |-> ok]
CgCalls == Len(cg_invocations)

\* The loop without its break: a successful invocation goes round again.
MutAfterSuccess == "loop"
\* Lines 221-222 (else: break): where control goes after a successful
\* invocation.
AfterSuccess == "validate"

\* The test of line 217 off by one: a fourth invocation is made.
MutGiveUp(n) == n = MaxTries + 1
\* Line 217: whether the handler re-raises.
GiveUp(n) == n = MaxTries

\* Lines 207-222, the invocation succeeding: the download has written
\* temp_fastqdir, and the loop is left.
CghubSucceed ==
    /\ cg_pc = "loop"
    /\ cg_invocations' = Append(cg_invocations, Invocation(Timeout(attemptNumber), TRUE))
    /\ cg_listing' \in DistinctSeqUpTo(TopNames, MaxTop)
    /\ cg_files' \in DistinctSeqUpTo(BundleNames, MaxFiles)
    /\ cg_pc' = AfterSuccess
    /\ UNCHANGED <<attemptNumber, cg_sleeps, cg_logged, cg_result>>
    /\ UNCHANGED <<s3vars, mainvars, dagvars, fsvars>>

\* Lines 207-222, the invocation raising RuntimeError: sleep, log, count,
\* and re-raise or go round again.
CghubFail ==
    /\ cg_pc = "loop"
    /\ cg_invocations' = Append(cg_invocations, Invocation(Timeout(attemptNumber), FALSE))
    /\ cg_sleeps' = Append(cg_sleeps, CoolDown)
    /\ cg_logged' = Append(cg_logged, ToolError(CgCalls + 1))
    /\ attemptNumber' = attemptNumber + 1
    /\ IF GiveUp(attemptNumber + 1)
         THEN /\ cg_pc' = "raised"
              /\ cg_result' = Raised(ToolError(CgCalls + 1))
         ELSE /\ cg_pc' = "loop"
              /\ cg_result' = cg_result
    /\ UNCHANGED <<cg_listing, cg_files>>
    /\ UNCHANGED <<s3vars, mainvars, dagvars, fsvars>>

\* re.sub('_2.fastq', '_1.fastq', name): every match, left to right; the
\* pattern's dot matches any one character.
RECURSIVE ReSub(_)
ReSub(n) ==
    IF n = <<>> THEN <<>>
    ELSE IF Len(n) >= 3 /\ n[1] = "_2" /\ n[2] \in OneChar /\ n[3] = "fastq"
    THEN <<"_1", ".", "fastq">> \o ReSub(SubSeq(n, 4, Len(n)))
    ELSE <<Head(n)>> \o ReSub(Tail(n))

\* Lines 288-310, bam2fastq: the path of the first mate when picard
\* succeeds, the error of docker_call when it fails.
Bam2Fastq(dir, bam) ==
    { Returned(dir, SplitextRoot(bam) \o <<"_1", ".", "fastq">>),
      Raised(CgError("RuntimeError", "picard failed", 0)) }

\* Lines 14-28, untargz, for a file that is or is not a tarball and for
\* every name of its first member; then lines 244-248.
Untar ==
    { Raised(CgError("AssertionError", "Not a tar file.", 0)) }
    \cup { IF EndsWith(member, <<".", "fastq">>)
              \/ EndsWith(member, <<".", "fastq", ".", "gz">>)
           THEN Returned(<<"fastqs">>, ReSub(member))
           ELSE Raised(ShapeError) : member \in MemberNames }

\* The test of line 229.
PairMissing(prefixes) == ({<<".", "bam">>, <<".", "bai">>} \ prefixes) # {}

\* Lines 223-226: the two list comprehensions.
AnalysisIds(listing) ==
    Filter(listing, {x \in Range(listing) :
                        ~(StartsWith(x, <<".">>) \/ EndsWith(x, <<".", "gto">>))})
BundleFiles(bundle) ==
    Filter(bundle, {x \in Range(bundle) : ~StartsWith(x, <<".">>)})

\* Lines 223-251 for a given content of the download directory: the ways
\* the call can end.
Validate(listing, bundle) ==
    LET ids   == AnalysisIds(listing)
        files == BundleFiles(bundle)
    IN  IF ids = <<>>
        THEN {Raised(CgError("IndexError", "list index out of range", 0))}
        ELSE IF Len(files) = 2 THEN
            IF PairMissing({SplitextExt(files[i]) : i \in 1..2})
            THEN {Raised(ShapeError)}
            ELSE Bam2Fastq(<<"temp_fastqdir">> \o ids[1],
                           Filter(files, {x \in Range(files) :
                                             EndsWith(x, <<".", "bam">>)})[1])
        ELSE IF Len(files) = 1 THEN
            IF ~EndsWith(files[1], <<".", "tar", ".", "gz">>)
            THEN {Raised(ShapeError)}
            ELSE Untar
        ELSE {Raised(ShapeError)}

\* Lines 223-251: shape validation of the downloaded bundle.
CghubValidate ==
    /\ cg_pc = "validate"
    /\ \E r \in Validate(cg_listing, cg_files) :
         /\ cg_pc' = IF r.kind = "returned" THEN "returned" ELSE "raised"
         /\ cg_result' = r
    /\ UNCHANGED <<attemptNumber, cg_invocations, cg_sleeps, cg_logged,
                   cg_listing, cg_files>>
    /\ UNCHANGED <<s3vars, mainvars, dagvars, fsvars>>

CgNext == CghubSucceed \/ CghubFail \/ CghubValidate

-----------------------------------------------------------------------------
(* __main__ and sample_loop *)

\* The characters of a manifest line (the line end is white space too).
Chars == {" ", "a"}
\* Characters of a manifest line, and lines of a manifest, at most.
MaxLineLen == 2
MaxSamples == 2

\* str.strip(): leading and trailing white space removed.
RECURSIVE LStrip(_)
LStrip(s) == IF s # <<>> /\ Head(s) = " " THEN LStrip(Tail(s)) ELSE s
RECURSIVE RStrip(_)
RStrip(s) == IF s # <<>> /\ Last(s) = " " THEN RStrip(SubSeq(s, 1, Len(s) - 1)) ELSE s
\* lstrip() in place of strip().
MutStrip(s) == LStrip(s)
\* Line 321: uuid.strip().
Strip(s) == RStrip(LStrip(s))

\* Lines 318-321: one entry per line of the manifest.
ParseManifest(lines) == [i \in 1..Len(lines) |-> Strip(lines[i])]

\* None, as the value of a field that holds an identifier, and as the value
\* of a field that holds a locator.
NoUuid == <<"None">>
NoLocator == <<"None", <<>>>>

\* A locator built by "...%s..." % uuid: its template and the identifier.
S3Analysis(u)  == <<"s3://bucket/analysis/%s", u>>
S3Alignment(u) == <<"s3://bucket/alignment/%s.bam", u>>
Analysis(u)    == <<"bucket/analysis/%s", u>>

\* The dict of the ADAM branch's calling stage built as a copy of the GATK
\* branch's: its suffix is .gatk.
MutBuildInputs ==
    [ bwa_inputs             |-> [lb |-> NoUuid, uuid |-> NoUuid],
      adam_inputs            |-> [outDir |-> NoLocator, bamName |-> NoLocator,
                                  suffix |-> ".adam"],
      gatk_preprocess_inputs |-> [s3_dir |-> NoLocator, suffix |-> ".gatk"],
      gatk_adam_call_inputs  |-> [s3_dir |-> NoLocator, suffix |-> ".gatk"],
      gatk_gatk_call_inputs  |-> [s3_dir |-> NoLocator, suffix |-> ".gatk"] ]
\* Lines 324-386: the five dicts as __main__ builds them (the fields that
\* sample_loop sets, and each dict's suffix).
BuildInputs ==
    [ bwa_inputs             |-> [lb |-> NoUuid, uuid |-> NoUuid],
      adam_inputs            |-> [outDir |-> NoLocator, bamName |-> NoLocator,
                                  suffix |-> ".adam"],
      gatk_preprocess_inputs |-> [s3_dir |-> NoLocator, suffix |-> ".gatk"],
      gatk_adam_call_inputs  |-> [s3_dir |-> NoLocator, suffix |-> ".adam"],
      gatk_gatk_call_inputs  |-> [s3_dir |-> NoLocator, suffix |-> ".gatk"] ]

\* Lines 206-212: the assignments one iteration makes to the dicts.
SetUuidInputs(d, u) ==
    [d EXCEPT !.bwa_inputs.lb = u,
              !.bwa_inputs.uuid = u,
              !.adam_inputs.outDir = S3Analysis(u),
              !.adam_inputs.bamName = S3Alignment(u),
              !.gatk_preprocess_inputs.s3_dir = Analysis(u),
              !.gatk_adam_call_inputs.s3_dir = Analysis(u),
              !.gatk_gatk_call_inputs.s3_dir = Analysis(u)]

\* The job arguments are the dict objects themselves: every child job that
\* sample_loop has added holds the same five objects, with their current
\* content.
Aliased(cs, d) == [i \in DOMAIN cs |-> [cs[i] EXCEPT !.args = d]]

\* The input locators of the four configuration files, before static_dag
\* has written them.
NoConfig ==
    [ bwa |-> NoLocator, gatk_preprocess |-> NoLocator,
      gatk_adam_call |-> NoLocator, gatk_gatk_call |-> NoLocator ]

\* Lines 243-273: the input locators static_dag writes to the four
\* configuration files of the sample u.
WriteConfigs(u) ==
    [ bwa             |-> <<"s3/bucket/sequence/%s_1.fastq.gz", u>>,
      gatk_preprocess |-> <<"s3/bucket/alignment/%s.bam", u>>,
      gatk_adam_call  |-> <<"s3/bucket/analysis/%s/%s.adam.bam", u>>,
      gatk_gatk_call  |-> <<"s3/bucket/analysis/%s/%s.gatk.bam", u>> ]

\* static_dag called in the loop itself: the child runs at once.
MutAddChildJobFn(cs, u, d) ==
    Append(cs, [uuid |-> u, args |-> d, status |-> "running",
                config |-> WriteConfigs(u)])
\* Line 214: job.addChildJobFn(static_dag, ..., uuid, <the dicts>, ...).
AddChildJobFn(cs, u, d) ==
    Append(cs, [uuid |-> u, args |-> d, status |-> "submitted",
                config |-> NoConfig])

Modes == {"adam", "gatk", "both"}

MainIdle ==
    /\ main_pc = "off" /\ main_error = "" /\ manifest = <<>>
    /\ pipeline_to_run = "both" /\ num_nodes = 2 /\ uuid_list = <<>>
    /\ inputs = BuildInputs /\ loop_i = 0 /\ children = <<>>

MainInit ==
    /\ main_pc = "parse" /\ main_error = ""
    /\ manifest \in SeqUpTo(SeqUpTo(Chars, MaxLineLen), MaxSamples)
    /\ pipeline_to_run \in Modes \cup {"other"}
    /\ num_nodes \in {1, 2}
    /\ uuid_list = <<>> /\ inputs = BuildInputs /\ loop_i = 0 /\ children = <<>>

\* Lines 317-321.
MainParse ==
    /\ main_pc = "parse"
    /\ uuid_list' = ParseManifest(manifest)
    /\ main_pc' = "build"
    /\ UNCHANGED <<main_error, manifest, pipeline_to_run, num_nodes, inputs,
                   loop_i, children>>
    /\ UNCHANGED <<s3vars, cgvars, dagvars, fsvars>>

\* Line 340: the test on --num_nodes.
TooFewNodes(n) == n <= 1

\* The mode test accepting every value.
MutValidMode(mode) == mode = mode
\* Lines 388-390: the test on --pipeline_to_run.
ValidMode(mode) == mode \in Modes

\* Lines 324-402: the dicts, the two argument checks, and startToil.
MainBuild ==
    /\ main_pc = "build"
    /\ inputs' = BuildInputs
    /\ IF TooFewNodes(num_nodes)
         THEN /\ main_pc' = "rejected"
              /\ main_error' = "--num_nodes ... must be greater than 1"
         ELSE IF ~ValidMode(pipeline_to_run)
         THEN /\ main_pc' = "rejected"
              /\ main_error' = "--pipeline_to_run must be either 'adam', 'gatk', or 'both'"
         ELSE /\ main_pc' = "loop"
              /\ main_error' = main_error
    /\ UNCHANGED <<manifest, pipeline_to_run, num_nodes, uuid_list, loop_i, children>>
    /\ UNCHANGED <<s3vars, cgvars, dagvars, fsvars>>

\* Lines 203-214: one iteration of the loop over uuid_list.
SampleLoopIter ==
    /\ main_pc = "loop"
    /\ loop_i < Len(uuid_list)
    /\ LET uuid == uuid_list[loop_i + 1]
           d    == SetUuidInputs(inputs, uuid)
       IN  /\ inputs' = d
           /\ children' = AddChildJobFn(Aliased(children, d), uuid, d)
    /\ loop_i' = loop_i + 1
    /\ UNCHANGED <<main_pc, main_error, manifest, pipeline_to_run, num_nodes, uuid_list>>
    /\ UNCHANGED <<s3vars, cgvars, dagvars, fsvars>>

\* sample_loop returns: the job and the children it added are saved, each
\* child with the arguments as they are now, and the children become
\* runnable.
SampleLoopReturn ==
    /\ main_pc = "loop"
    /\ loop_i = Len(uuid_list)
    /\ main_pc' = "returned"
    /\ UNCHANGED <<main_error, manifest, pipeline_to_run, num_nodes, uuid_list,
                   inputs, loop_i, children>>
    /\ UNCHANGED <<s3vars, cgvars, dagvars, fsvars>>

\* Whether child job i may start running static_dag.
Runnable(i) == main_pc = "returned" /\ children[i].status = "submitted"

\* A child job starts: static_dag runs with the child's arguments and
\* writes the configuration files.
ChildStart(i) ==
    /\ Runnable(i)
    /\ children' = [children EXCEPT ![i].status = "running",
                                    ![i].config = WriteConfigs(children[i].uuid)]
    /\ UNCHANGED <<main_pc, main_error, manifest, pipeline_to_run, num_nodes,
                   uuid_list, inputs, loop_i>>
    /\ UNCHANGED <<s3vars, cgvars, dagvars, fsvars>>

\* The graph that static_dag wired for child i ends, all of its stages
\* having succeeded, or one of them having failed.
ChildEnd(i, how) ==
    /\ children[i].status = "running"
    /\ children' = [children EXCEPT ![i].status = how]
    /\ UNCHANGED <<main_pc, main_error, manifest, pipeline_to_run, num_nodes,
                   uuid_list, inputs, loop_i>>
    /\ UNCHANGED <<s3vars, cgvars, dagvars, fsvars>>

MainNext ==
    \/ MainParse
    \/ MainBuild
    \/ SampleLoopIter
    \/ SampleLoopReturn
    \/ \E i \in DOMAIN children : ChildStart(i)
    \/ \E i \in DOMAIN children : ChildEnd(i, "succeeded")
    \/ \E i \in DOMAIN children : ChildEnd(i, "failed")

-----------------------------------------------------------------------------
(* static_dag *)

\* The job that runs static_dag, and the five jobs it wraps.
Root == "static_dag"
Groups == {"bwa", "adam_preprocess", "gatk_adam_call", "gatk_preprocess",
           "gatk_gatk_call"}

\* Jobs of a stage group: its head job and the jobs that follow from it.
GroupSize == 2

\* The alignment and ADAM preprocessing jobs left unencapsulated.
MutEncapsulate == Groups \ {"adam_preprocess", "bwa"}
\* Lines 276-293: the wrapped jobs on which .encapsulate() is called.
Encapsulate == Groups

\* The last addChild called on the wrong job, and the caller of the GATK
\* branch made the parent of the alignment: the ADAM branch's caller gets
\* two parents and the GATK branch closes a cycle.
MutWireCycle(mode) ==
    {<<Root, "bwa">>}
    \cup (IF mode = "adam" \/ mode = "both"
          THEN {<<"bwa", "adam_preprocess">>, <<"adam_preprocess", "gatk_adam_call">>}
          ELSE {})
    \cup (IF mode = "gatk" \/ mode = "both"
          THEN {<<"bwa", "gatk_preprocess">>, <<"gatk_preprocess", "gatk_adam_call">>,
                <<"gatk_adam_call", "bwa">>}
          ELSE {})
\* The second test of the wiring without its 'both' alternative.
MutWire(mode) ==
    {<<Root, "bwa">>}
    \cup (IF mode = "adam" \/ mode = "both"
          THEN {<<"bwa", "adam_preprocess">>, <<"adam_preprocess", "gatk_adam_call">>}
          ELSE {})
    \cup (IF mode = "gatk"
          THEN {<<"bwa", "gatk_preprocess">>, <<"gatk_preprocess", "gatk_gatk_call">>}
          ELSE {})
\* Lines 297-308: the addChild calls.
Wire(mode) ==
    {<<Root, "bwa">>}
    \cup (IF mode = "adam" \/ mode = "both"
          THEN {<<"bwa", "adam_preprocess">>, <<"adam_preprocess", "gatk_adam_call">>}
          ELSE {})
    \cup (IF mode = "gatk" \/ mode = "both"
          THEN {<<"bwa", "gatk_preprocess">>, <<"gatk_preprocess", "gatk_gatk_call">>}
          ELSE {})

DagIdle ==
    /\ dag_pc = "off" /\ dag_mode = "both" /\ dag_edges = {}
    /\ dag_encapsulated = {}
    /\ dag_status = [g \in Groups |-> "pending"]
    /\ dag_done = [g \in Groups |-> 0]

\* static_dag is about to run; __main__ lets only the three modes through.
DagInit ==
    /\ dag_pc = "build" /\ dag_mode \in Modes /\ dag_edges = {}
    /\ dag_encapsulated = {}
    /\ dag_status = [g \in Groups |-> "pending"]
    /\ dag_done = [g \in Groups |-> 0]

\* Lines 218-308: static_dag runs to its end.
StaticDag ==
    /\ dag_pc = "build"
    /\ dag_encapsulated' = Encapsulate
    /\ dag_edges' = Wire(dag_mode)
    /\ dag_pc' = "wired"
    /\ UNCHANGED <<dag_mode, dag_status, dag_done>>
    /\ UNCHANGED <<s3vars, cgvars, mainvars, fsvars>>

\* Whether the children of job p may start: after every job of p when p is
\* encapsulated, after p's head job otherwise; the children of the job
\* that runs static_dag start when static_dag has returned.
Finished(p) ==
    IF p = Root THEN dag_pc = "wired"
    ELSE IF p \in dag_encapsulated THEN dag_done[p] = GroupSize
    ELSE dag_done[p] >= 1

\* The head job of group g starts.
GroupStart(g) ==
    /\ dag_status[g] = "pending"
    /\ \E p \in Groups \cup {Root} : <<p, g>> \in dag_edges /\ Finished(p)
    /\ dag_status' = [dag_status EXCEPT ![g] = "running"]
    /\ UNCHANGED <<dag_pc, dag_mode, dag_edges, dag_encapsulated, dag_done>>
    /\ UNCHANGED <<s3vars, cgvars, mainvars, fsvars>>

\* A job of group g succeeds.
JobSucceed(g) ==
    /\ dag_status[g] = "running"
    /\ dag_done' = [dag_done EXCEPT ![g] = @ + 1]
    /\ dag_status' = [dag_status EXCEPT ![g] =
                         IF dag_done[g] + 1 = GroupSize THEN "succeeded" ELSE @]
    /\ UNCHANGED <<dag_pc, dag_mode, dag_edges, dag_encapsulated>>
    /\ UNCHANGED <<s3vars, cgvars, mainvars, fsvars>>

\* A job of group g fails: the group fails.
JobFail(g) ==
    /\ dag_status[g] = "running"
    /\ dag_status' = [dag_status EXCEPT ![g] = "failed"]
    /\ UNCHANGED <<dag_pc, dag_mode, dag_edges, dag_encapsulated, dag_done>>
    /\ UNCHANGED <<s3vars, cgvars, mainvars, fsvars>>

DagNext ==
    \/ StaticDag
    \/ \E g \in Groups : GroupStart(g)
    \/ \E g \in Groups : JobSucceed(g)
    \/ \E g \in Groups : JobFail(g)

-----------------------------------------------------------------------------
(* Specifications *)

InitS3 == S3Init /\ CgIdle /\ MainIdle /\ DagIdle /\ FsIdle
InitCghub == S3Idle /\ CgInit /\ MainIdle /\ DagIdle /\ FsIdle
InitDriver == S3Idle /\ CgIdle /\ MainInit /\ DagIdle /\ FsIdle
InitDag == S3Idle /\ CgIdle /\ MainIdle /\ DagInit /\ FsIdle
InitFiles == S3Idle /\ CgIdle /\ MainIdle /\ DagIdle /\ FsInit

SpecS3 == InitS3 /\ [][S3Next]_vars

SpecCghub == InitCghub /\ [][CgNext]_vars

SpecDriver == InitDriver /\ [][MainNext]_vars

SpecDag == InitDag /\ [][DagNext]_vars

SpecFiles == InitFiles /\ [][FsNext]_vars

-----------------------------------------------------------------------------
(* Properties of get_file_from_s3 *)

FailedUnclassified(a) == a.out = "CalledProcessError" /\ a.diag = "unclassified"
FailedPermanent(a) ==
    a.out = "CalledProcessError" /\ a.diag \in {"403", "400", "missing"}

\* C1: when every invocation of the transfer tool in one call fails with an
\* unclassified diagnostic, the tool is invoked at most 3 times in that
\* call, and the call has raised once the third invocation has failed.
C1_UnclassifiedAtMostThree ==
    (\A i \in DOMAIN s3_history : FailedUnclassified(s3_history[i]))
        => /\ s3_calls <= 3
           /\ s3_calls = 3 /\ Len(s3_history) = 3 => s3_pc = "raised"

\* C2: an invocation that fails with a permanent classification (403, 400,
\* missing resource) is the last invocation of the call, and the call has
\* raised a RuntimeError right after it; when it is the first invocation,
\* the call has made exactly one.
C2_PermanentFailsAtOnce ==
    \A i \in DOMAIN s3_history :
        FailedPermanent(s3_history[i])
            => /\ i = Len(s3_history)
               /\ s3_calls = i
               /\ s3_pc = "raised"
               /\ s3_error.type = "RuntimeError"

\* C2's case: the first invocation failed with 403 Forbidden and the call
\* has ended.
C2_Witness ==
    /\ s3_pc = "raised"
    /\ Len(s3_history) = 1
    /\ s3_history[1] = [out |-> "CalledProcessError", diag |-> "403"]
    /\ s3_calls = 1

\* Whether some invocation of the transfer tool succeeded.
TransferSucceeded == \E i \in DOMAIN s3_history : s3_history[i].out = "ok"
S3Ended == s3_pc \in {"returned", "raised"}

\* C12: a call in which the transfer tool was invoked and never succeeded
\* ends by raising the classified fetch error, a RuntimeError, whatever the
\* tool wrote to its diagnostic output (an output without any non-blank
\* line included); it never returns a path and never ends with an error of
\* another kind.
C12_FailureRaisesFetchError ==
    (S3Ended /\ s3_calls >= 1 /\ ~TransferSucceeded)
        => /\ s3_pc = "raised"
           /\ s3_error.type = "RuntimeError"

\* C13: the diagnostic log work_dir/stderr exists only between an
\* invocation of the tool and the handling of its outcome: it is absent
\* when an invocation begins, so no invocation's handler reads an earlier
\* log, and absent once the call has returned or raised, on every exit
\* path.
C13_LogRemoved ==
    /\ s3_pc # "handle" => ~stderr_file.exists
    /\ s3_pc = "handle" => stderr_file.exists

\* C13's case: the retries are exhausted (four invocations, each with its
\* own log), the call has raised and the log is gone.
C13_Witness ==
    /\ s3_pc = "raised"
    /\ s3_calls = 4
    /\ \A i \in DOMAIN s3_history : FailedUnclassified(s3_history[i])
    /\ ~stderr_file.exists

\* C25: the call publishes to the job store at most once, only after a
\* successful transfer and only when write_to_jobstore is set; a call
\* that ends in an error has published nothing, however many attempts
\* failed before; an unsupported URL scheme is rejected before any
\* invocation of the transfer tool.
C25_PublishOnceAfterSuccess ==
    /\ s3_published <= 1
    /\ s3_published = 1
          => /\ s3_pc = "returned"
             /\ write_to_jobstore
             /\ Last(s3_history).out = "ok"
    /\ s3_pc = "raised" => s3_published = 0
    /\ s3_pc = "returned" /\ ~write_to_jobstore => s3_published = 0
    /\ s3_scheme \notin {"https", "s3"}
          => /\ s3_calls = 0
             /\ s3_pc \in {"entry", "raised"}

\* C25's case: the transfer succeeded at the third invocation and the
\* file was published, once.
C25_Witness ==
    /\ s3_pc = "returned" /\ write_to_jobstore
    /\ s3_calls = 3
    /\ s3_published = 1

-----------------------------------------------------------------------------
(* Properties of get_files_from_filestore *)

\* The content of the file a returned value refers to (a path under /data
\* is the docker view of the file of that name in work_dir).
FileAt(v) == IF v.name \in DOMAIN work_dir THEN work_dir[v.name] ELSE NoContent

\* The input holds the one entry n.
OnlyEntry(n) == DOMAIN fs_input = {n}

\* C14: an entry named x.gz whose staged file is gzip-compressed and not
\* BAM-like is returned under the key x, the key x.gz being gone, with a
\* path that refers to the decompressed file. (Stated for a call with
\* that one entry, where no other entry interferes.)
C14_GzipEntryDecompressed ==
    \A n \in DOMAIN fs_input :
        (/\ fs_pc = "returned"
         /\ OnlyEntry(n)
         /\ is_gzipfile(fs_input[n].content)
         /\ file_xext(n) = <<".", "gz">>)
            => /\ SplitextRoot(n) \in DOMAIN fs_files
               /\ n \notin DOMAIN fs_files
               /\ FileAt(fs_files[SplitextRoot(n)]) = Gunzip(fs_input[n].content)

\* What a name says about compression: it ends with .tar or .tar.gz, or
\* with .gz after something other than .tar.
NamedTar(n) ==
    EndsWith(n, <<".", "tar">>) \/ EndsWith(n, <<".", "tar", ".", "gz">>)
NamedGz(n) == EndsWith(n, <<".", "gz">>) /\ ~NamedTar(n)

\* What a content's signature says: a tar archive, plain or inside a gzip
\* stream, or a gzip stream that is no BAM.
TarContent(c) ==
    \/ c.layers[1] = "tar"
    \/ Len(c.layers) >= 2 /\ c.layers[1] = "gz" /\ c.layers[2] = "tar"
GzContent(c) == c.layers[1] = "gz"

C26_OneEntryPerInput ==
    fs_pc = "returned"
        => /\ Cardinality(DOMAIN fs_files) = Cardinality(DOMAIN fs_input)
           /\ \A n \in DOMAIN fs_log :
                 /\ fs_log[n].key \in DOMAIN fs_files
                 /\ fs_files[fs_log[n].key] = fs_log[n].value

\* A file in stable form: neither an archive nor a gzip stream.
Stable(c) == c # NoContent /\ ~TarContent(c) /\ ~GzContent(c)

\* The normalisation step applied once more, to the file an entry was
\* returned with: the path and the logical name the entry then has.
Renormalized(e) ==
    LET again == Normalize(e.value.name, FileAt(e.value))
    IN  [path |-> again.path,
         key  |-> IF again.op = "none" THEN e.key ELSE again.key]

\* C16: normalisation is idempotent for every kind of staged file: the
\* step applied to a file it has already normalised returns the same path
\* and the same logical name. (Stated for a call with one entry.)
C16_Idempotent ==
    \A n \in DOMAIN fs_log :
        (fs_pc = "returned" /\ OnlyEntry(n))
            => /\ Renormalized(fs_log[n]).path = fs_log[n].value.name
               /\ Renormalized(fs_log[n]).key = fs_log[n].key

\* The path an iteration stores for a file that it leaves at work_dir/n.
Materialized(n) == IF docker THEN Path("/data", n) ELSE Path("work_dir", n)

\* The iteration that has just visited the key n.
Visits(n) == n \notin DOMAIN fs_log /\ n \in DOMAIN fs_log'
PlainContent(c) == c.layers = <<"plain">>

\* C17 as stated: an entry whose staged file is neither a tar archive nor
\* gzip-compressed is kept under its name with the path it was
\* materialised at, work_dir/name.
C17_PlainKeptAtWorkDirPath ==
    \A n \in DOMAIN fs_log :
        PlainContent(fs_log[n].content)
            => /\ fs_log[n].op = "none"
               /\ fs_log[n].key = n
               /\ fs_log[n].value = Path("work_dir", n)

\* C17, amended: the iteration for such an entry keeps it under its name
\* with the path of the file staged for it (work_dir/name, and /data/name
\* when docker is set), extracts and decompresses nothing, and changes no
\* other entry of the dict and no other file of work_dir.
C17_PlainUntouched ==
    [][\A n \in InputNames :
          (Visits(n) /\ PlainContent(fs_log'[n].content))
              => /\ fs_log'[n].op = "none"
                 /\ fs_files' = [fs_files EXCEPT ![n] = Materialized(n)]
                 /\ work_dir' = Put(work_dir, n, fs_log'[n].content)]_vars

\* C17's case: a plain file a and a gzip file b.gz were passed, docker is
\* set and both were visited; the plain entry has its /data path and the
\* other entry is as its own iteration left it.
C17_Witness ==
    /\ docker
    /\ fs_pc = "returned"
    /\ DOMAIN fs_log = {<<"a">>, <<"b", ".", "gz">>}
    /\ PlainContent(fs_log[<<"a">>].content)
    /\ fs_log[<<"b", ".", "gz">>].op = "gunzip"
    /\ fs_files[<<"a">>] = Path("/data", <<"a">>)
    /\ fs_files[<<"b">>] = fs_log[<<"b", ".", "gz">>].value

\* C18: every path the call returns refers to a file in stable form; a
\* file that needs a further pass is normalised again, or the call fails.
\* (Stated for a call with one entry, a tar archive named as one.)
C18_ReturnedPathsStable ==
    \A n \in DOMAIN fs_input :
        (/\ fs_pc = "returned"
         /\ OnlyEntry(n)
         /\ NamedTar(n)
         /\ TarContent(fs_input[n].content))
            => \A k \in DOMAIN fs_files : Stable(FileAt(fs_files[k]))

-----------------------------------------------------------------------------
(* Properties of get_file_from_cghub *)

RetrievalSucceeded == \E i \in DOMAIN cg_invocations : cg_invocations[i].ok
CgEnded == cg_pc \in {"returned", "raised"}

\* The two bundle shapes the specification supports, read off the download
\* directory: an analysis directory holding exactly a .bam and a .bai file,
\* or exactly one .tar.gz file (hidden files and .gto files aside).
VisibleTop ==
    {x \in Range(cg_listing) : x[1] # "." /\ ~EndsWith(x, <<".", "gto">>)}
VisibleFiles == {x \in Range(cg_files) : x[1] # "."}
PairShape ==
    /\ Cardinality(VisibleFiles) = 2
    /\ \E x \in VisibleFiles : EndsWith(x, <<".", "bam">>)
    /\ \E x \in VisibleFiles : EndsWith(x, <<".", "bai">>)
TarShape ==
    /\ Cardinality(VisibleFiles) = 1
    /\ \E x \in VisibleFiles : EndsWith(x, <<".", "tar", ".", "gz">>)
SupportedShape == VisibleTop # {} /\ (PairShape \/ TarShape)

\* C8: after a successful retrieval the call returns a path only for the
\* two supported bundle shapes, and for every other shape (no file, an
\* empty download directory, ...) it raises the unexpected-archive-shape
\* error.
C8_OnlySupportedShapes ==
    (CgEnded /\ RetrievalSucceeded)
        => /\ cg_result.kind = "returned" => SupportedShape
           /\ ~SupportedShape => cg_result = Raised(ShapeError)

\* C9: once an invocation of the retrieval tool has succeeded, no step of
\* the call invokes it again or sleeps; so a bundle-shape error follows the
\* successful invocation directly.
C9_NoRetrievalAfterSuccess ==
    [][RetrievalSucceeded
          => /\ cg_invocations' = cg_invocations
             /\ cg_sleeps' = cg_sleeps
             /\ cg_pc' # "loop"]_vars

\* C9's case: the first invocation failed, the second succeeded, and the
\* bundle was rejected for its shape.
C9_Witness ==
    /\ cg_result = Raised(ShapeError)
    /\ Len(cg_invocations) = 2
    /\ ~cg_invocations[1].ok /\ cg_invocations[2].ok
    /\ cg_sleeps = <<600>>

\* C10: the retrieval tool is invoked at most 3 times per call; when every
\* invocation has failed and the call has ended, it has raised the error
\* of the last (third) invocation; a successful invocation is the last.
C10_AtMostThreeTries ==
    /\ Len(cg_invocations) <= 3
    /\ \A i \in DOMAIN cg_invocations :
           cg_invocations[i].ok => i = Len(cg_invocations)
    /\ (~RetrievalSucceeded /\ Len(cg_invocations) = 3)
           => /\ cg_pc = "raised"
              /\ cg_result = Raised(ToolError(3))
    /\ (~RetrievalSucceeded /\ CgEnded)
           => /\ Len(cg_invocations) = 3
              /\ cg_result.kind = "raised"
              /\ cg_result.err = Last(cg_logged)

\* C10's case: three invocations, all failed, the call has raised.
C10_Witness ==
    /\ cg_pc = "raised"
    /\ Len(cg_invocations) = 3
    /\ \A i \in 1..3 : ~cg_invocations[i].ok

\* C24: the 600-second cool-down is taken between consecutive attempts
\* only: when the call has left the retry loop after n attempts it has
\* slept n - 1 times, 600 seconds each, and not after the last failed
\* attempt before the error is raised.
C24_CoolDownBetweenAttempts ==
    /\ \A i \in DOMAIN cg_sleeps : cg_sleeps[i] = 600
    /\ cg_pc \in {"validate", "returned", "raised"}
          => Len(cg_sleeps) = Len(cg_invocations) - 1

\* C11: the k-th invocation of the retrieval tool within one call is given
\* the timeout 10 * k minutes (10, 20, 30): the timeout grows by 10 from
\* one invocation to the next and never decreases or starts again.
C11_TimeoutTenTimesK ==
    /\ \A i \in DOMAIN cg_invocations : cg_invocations[i].k = 10 * i
    /\ \A i \in DOMAIN cg_invocations :
           i > 1 => cg_invocations[i].k = cg_invocations[i - 1].k + 10

\* C11's case: the third invocation has been made, after two failures.
C11_Witness ==
    /\ Len(cg_invocations) = 3
    /\ cg_invocations[3].k = 30
    /\ ~cg_invocations[1].ok /\ ~cg_invocations[2].ok

-----------------------------------------------------------------------------
(* Properties of __main__ and sample_loop *)

AllSpaces(s) == \A i \in DOMAIN s : s[i] = " "

\* u is line without its leading and trailing white space.
IsStripped(u, line) ==
    /\ u = <<>> \/ (Head(u) # " " /\ Last(u) # " ")
    /\ \E i \in 0..Len(line) :
          /\ i + Len(u) <= Len(line)
          /\ AllSpaces(SubSeq(line, 1, i))
          /\ SubSeq(line, i + 1, i + Len(u)) = u
          /\ AllSpaces(SubSeq(line, i + Len(u) + 1, Len(line)))

Started(i) == children[i].status # "submitted"

\* C3: the graph submitted for identifier u runs static_dag with bundles
\* whose per-sample fields are derived from u.
C3_BundlesOfOwnSample ==
    \A i \in DOMAIN children :
        Started(i) =>
            LET u == children[i].uuid
                a == children[i].args
            IN  /\ a.bwa_inputs.lb = u
                /\ a.bwa_inputs.uuid = u
                /\ a.adam_inputs.outDir = <<"s3://bucket/analysis/%s", u>>
                /\ a.adam_inputs.bamName = <<"s3://bucket/alignment/%s.bam", u>>
                /\ a.gatk_preprocess_inputs.s3_dir = <<"bucket/analysis/%s", u>>
                /\ a.gatk_adam_call_inputs.s3_dir = <<"bucket/analysis/%s", u>>
                /\ a.gatk_gatk_call_inputs.s3_dir = <<"bucket/analysis/%s", u>>

\* C5: the driver submits exactly one graph per manifest line, in manifest
\* order, each under the line's stripped text; equal identifiers are not
\* merged.
C5_OneGraphPerLine ==
    /\ Len(children) = loop_i
    /\ Len(children) <= Len(manifest)
    /\ \A i \in DOMAIN children : IsStripped(children[i].uuid, manifest[i])
    /\ main_pc = "returned" => Len(children) = Len(manifest)

\* C5's case: two lines that differ in white space only have yielded two
\* graphs under the same identifier.
C5_Witness ==
    /\ main_pc = "returned"
    /\ manifest = << <<"a", " ">>, <<" ", "a">> >>
    /\ Len(children) = 2
    /\ children[1].uuid = <<"a">> /\ children[2].uuid = <<"a">>

\* C6: no graph has begun executing before the graph of every manifest
\* line is submitted; and once they are submitted, whatever the other
\* graphs have done (failed or not), a graph that has not started can
\* start, and one that runs can run to completion.
C6_SamplesIndependent ==
    /\ (\E i \in DOMAIN children : Started(i))
           => /\ main_pc = "returned"
              /\ Len(children) = Len(manifest)
    /\ main_pc = "returned" =>
           \A j \in DOMAIN children :
               /\ children[j].status = "submitted" => ENABLED ChildStart(j)
               /\ children[j].status = "running" => ENABLED ChildEnd(j, "succeeded")

\* C6's case: the first sample's graph has failed and the second one has
\* run to completion.
C6_Witness ==
    /\ Len(children) = 2
    /\ children[1].status = "failed"
    /\ children[2].status = "succeeded"

\* The identifier a locator was built from.
LocatorId(l) == l[2]

\* C22: in the graph submitted for identifier u, each downstream stage
\* reads the locator its parent stage writes: both preprocessing stages
\* read alignment/u.bam, which the alignment group (given u) writes; the
\* ADAM branch's caller reads analysis/u/u.adam.bam, inside ADAM
\* preprocessing's outDir and with its suffix; the GATK branch's caller
\* reads analysis/u/u.gatk.bam, inside GATK preprocessing's s3_dir and
\* with its suffix.
C22_ReadsWhatParentWrites ==
    \A i \in DOMAIN children :
        Started(i) =>
            LET u == children[i].uuid
                a == children[i].args
                c == children[i].config
            IN  /\ a.bwa_inputs.uuid = u
                /\ c.gatk_preprocess = <<"s3/bucket/alignment/%s.bam", u>>
                /\ LocatorId(a.adam_inputs.bamName) = u
                /\ c.gatk_adam_call = <<"s3/bucket/analysis/%s/%s.adam.bam", u>>
                /\ LocatorId(a.adam_inputs.outDir) = u
                /\ a.adam_inputs.suffix = ".adam"
                /\ c.gatk_gatk_call = <<"s3/bucket/analysis/%s/%s.gatk.bam", u>>
                /\ LocatorId(a.gatk_preprocess_inputs.s3_dir) = u
                /\ a.gatk_preprocess_inputs.suffix = ".gatk"

\* An output location: what is written, for which identifier, with which
\* suffix.
Location(what, id, suffix) == <<what, id, suffix>>

\* The locations the stages of a child job write, by the dicts they are
\* given: the aligned BAM, and per branch that is wired the preprocessed
\* BAM and the calls.
Writes(c) ==
    {Location("alignment", c.args.bwa_inputs.uuid, ".bam")}
    \cup (IF pipeline_to_run \in {"adam", "both"}
          THEN {Location("bam", LocatorId(c.args.adam_inputs.outDir),
                         c.args.adam_inputs.suffix),
                Location("calls", LocatorId(c.args.gatk_adam_call_inputs.s3_dir),
                         c.args.gatk_adam_call_inputs.suffix)}
          ELSE {})
    \cup (IF pipeline_to_run \in {"gatk", "both"}
          THEN {Location("bam", LocatorId(c.args.gatk_preprocess_inputs.s3_dir),
                         c.args.gatk_preprocess_inputs.suffix),
                Location("calls", LocatorId(c.args.gatk_gatk_call_inputs.s3_dir),
                         c.args.gatk_gatk_call_inputs.suffix)}
          ELSE {})

\* C23: across the graphs submitted in one run, every output location is
\* written by the stages of one graph at most, so graphs that run at the
\* same time never write the same location. (Stated for the graphs of two
\* different identifiers.)
C23_OneWriterPerLocation ==
    \A i, j \in DOMAIN children :
        (children[i].uuid # children[j].uuid /\ Started(i) /\ Started(j))
            => Writes(children[i]) \cap Writes(children[j]) = {}

\* The arguments __main__ must reject.
InvalidArguments ==
    pipeline_to_run \notin {"adam", "gatk", "both"} \/ num_nodes <= 1

\* C19: when pipeline_to_run is none of adam, gatk, both, or num_nodes is
\* at most 1, the driver raises an error whose message names the option
\* at fault and never calls startToil: sample_loop makes no iteration, no
\* graph is submitted and no stage runs.
C19_InvalidArgumentsRejected ==
    InvalidArguments
        => /\ main_pc \in {"parse", "build", "rejected"}
           /\ loop_i = 0 /\ children = <<>>
           /\ main_pc = "rejected"
                => main_error =
                     IF num_nodes <= 1
                       THEN "--num_nodes ... must be greater than 1"
                       ELSE "--pipeline_to_run must be either 'adam', 'gatk', or 'both'"

\* C19's case: an unknown mode with enough nodes and a manifest of two
\* samples; the driver has raised.
C19_Witness ==
    /\ main_pc = "rejected"
    /\ pipeline_to_run = "other" /\ num_nodes = 2
    /\ Len(uuid_list) = 2
    /\ children = <<>>

\* The output namespace a stage is given by its dict: the directory it
\* writes to and the suffix its output names carry.
OutputKey(dir, suffix) == [dir |-> dir, suffix |-> suffix]

\* The namespaces of the two branches of the graph of a child job: the
\* preprocessing stage and the calling stage of each.
AdamBranchKeys(c) ==
    { OutputKey(c.args.adam_inputs.outDir, c.args.adam_inputs.suffix),
      OutputKey(c.args.gatk_adam_call_inputs.s3_dir,
                c.args.gatk_adam_call_inputs.suffix) }
GatkBranchKeys(c) ==
    { OutputKey(c.args.gatk_preprocess_inputs.s3_dir,
                c.args.gatk_preprocess_inputs.suffix),
      OutputKey(c.args.gatk_gatk_call_inputs.s3_dir,
                c.args.gatk_gatk_call_inputs.suffix) }

\* C20: in mode both, within the graph of one sample, every output key of
\* the ADAM branch carries the suffix .adam and every output key of the
\* GATK branch the suffix .gatk, so the two branches write disjoint keys;
\* and the two calling stages read different input locators.
C20_BranchKeysDisjoint ==
    pipeline_to_run = "both"
        => \A i \in {j \in DOMAIN children : Started(j)} :
              /\ \A k \in AdamBranchKeys(children[i]) : k.suffix = ".adam"
              /\ \A k \in GatkBranchKeys(children[i]) : k.suffix = ".gatk"
              /\ AdamBranchKeys(children[i]) \cap GatkBranchKeys(children[i]) = {}
              /\ children[i].config.gatk_adam_call
                    # children[i].config.gatk_gatk_call

\* C20's case: mode both, the graphs of two samples have been built and
\* are running.
C20_Witness ==
    /\ pipeline_to_run = "both"
    /\ Len(children) = 2
    /\ \A i \in DOMAIN children : children[i].status = "running"
    /\ children[1].uuid # children[2].uuid

-----------------------------------------------------------------------------
(* Properties of static_dag *)

\* The job that runs sample_loop adds the job that runs static_dag as its
\* child, once (line 214); with the addChild edges of static_dag this is
\* the graph of one sample.
SampleGraph == {<<"sample_loop", Root>>} \cup dag_edges
Nodes == {"sample_loop", Root} \cup Groups

ChildrenOf(E, S) == {e[2] : e \in {x \in E : x[1] \in S}}
ParentsOf(E, n) == {e[1] : e \in {x \in E : x[2] = n}}

\* The jobs reached from the jobs of S by at most k edges of E.
RECURSIVE Below(_, _, _)
Below(E, S, k) ==
    IF k = 0 \/ S = {} THEN {}
    ELSE ChildrenOf(E, S) \cup Below(E, ChildrenOf(E, S), k - 1)

AdamChain == {<<"bwa", "adam_preprocess">>, <<"adam_preprocess", "gatk_adam_call">>}
GatkChain == {<<"bwa", "gatk_preprocess">>, <<"gatk_preprocess", "gatk_gatk_call">>}
Untouched(g) == dag_status[g] = "pending" /\ dag_done[g] = 0

\* C4: static_dag always makes the alignment group a child of the root job;
\* mode 'both' wires both chains, 'adam' only the ADAM chain, 'gatk' only
\* the GATK chain; no stage of an unselected branch ever runs.
C4_ConditionalWiring ==
    /\ dag_pc = "wired" =>
          /\ <<"static_dag", "bwa">> \in dag_edges
          /\ dag_mode = "both" => dag_edges = {<<"static_dag", "bwa">>} \cup AdamChain \cup GatkChain
          /\ dag_mode = "adam" => dag_edges = {<<"static_dag", "bwa">>} \cup AdamChain
          /\ dag_mode = "gatk" => dag_edges = {<<"static_dag", "bwa">>} \cup GatkChain
    /\ dag_mode = "adam" => Untouched("gatk_preprocess") /\ Untouched("gatk_gatk_call")
    /\ dag_mode = "gatk" => Untouched("adam_preprocess") /\ Untouched("gatk_adam_call")

\* C4's case: in mode 'both' the two variant-calling groups have both run
\* to the end.
C4_Witness ==
    /\ dag_mode = "both"
    /\ dag_status["gatk_adam_call"] = "succeeded"
    /\ dag_status["gatk_gatk_call"] = "succeeded"

\* C7: a variant-calling group has not started before every job of its
\* branch's preprocessing group has succeeded, and a preprocessing group
\* has not started before every job of the alignment group has succeeded.
C7_EncapsulatedOrder ==
    \A e \in AdamChain \cup GatkChain :
        dag_status[e[2]] # "pending"
            => /\ dag_status[e[1]] = "succeeded"
               /\ dag_done[e[1]] = GroupSize

\* C21: in every mode the graph wired by sample_loop and static_dag is
\* acyclic, no job being directly or transitively its own ancestor, and
\* every stage group has at most one parent.
C21_AcyclicOneParent ==
    /\ \A n \in Nodes : n \notin Below(SampleGraph, {n}, Cardinality(Nodes))
    /\ \A g \in Groups : Cardinality(ParentsOf(SampleGraph, g)) <= 1

\* C21's case: the graph of mode both is wired, five edges below the job
\* of static_dag, and has run to the end of both branches.
C21_Witness ==
    /\ dag_pc = "wired" /\ dag_mode = "both"
    /\ Cardinality(dag_edges) = 5
    /\ dag_status["gatk_adam_call"] = "succeeded"
    /\ dag_status["gatk_gatk_call"] = "succeeded"

\* C7's case: both variant-calling groups are running, each after its own
\* preprocessing group.
C7_Witness ==
    /\ dag_status["gatk_adam_call"] = "running"
    /\ dag_status["gatk_gatk_call"] = "running"
    /\ dag_done["adam_preprocess"] = GroupSize
    /\ dag_done["gatk_preprocess"] = GroupSize

=============================================================================
